---- MODULE Spec2Model ----
(***************************************************************************)
(* A model of the coroutine runtime of src/coroutines/coroutine.c: the     *)
(* CoroutineMachine (live list, id bitset, run loop, scheduler tick) and   *)
(* the Coroutine operations (Start, Wait, Yield, YieldValue, Call, Exit),  *)
(* together with the task functions of src/coroutines/main.c.              *)
(***************************************************************************)
EXTENDS Integers, Sequences, FiniteSets, TLC

VARIABLES
  co,                \* Coroutine structs, by address (1..Len(co))
  coroutines,        \* m->coroutines: the live list, in insertion order
  coroutine_ids,     \* m->coroutine_ids: the BitSet of identifiers
  next_coroutine_id, \* m->next_coroutine_id
  current,           \* m->current
  running,           \* m->running
  interrupt_fd,      \* m->interrupt_fd is readable
  interrupt_fd_fd,   \* m->interrupt_fd.fd
  tick_count,        \* m->tick_count
  ctl,               \* where the thread is: "main" (before Run), "poll" (in
                     \* GetRunnableCoroutine), "co" (in a task), "done" (Run
                     \* returned), "destructed" (CoroutineMachineDestruct
                     \* returned) or "aborted" (free has ended the process)
  out,               \* what Co1 has printed (stdout)
  pipes,             \* the pipe of main.c: the bytes in it, by message, and
                     \* whether its write end is closed
  reads,             \* what each read of the Reader returned, by message
  timer,             \* the timer descriptor of Co1 has expired and is unread
  events,            \* event descriptors outside the machine: their counters
  tick_base,         \* m->tick_count when the behaviour starts: tick_count and
                     \* last_tick are kept relative to it
  served,            \* history: callers whose pending Call has been answered
  picks              \* history: the coroutines chosen by the ticks so far

vars == <<co, coroutines, coroutine_ids, next_coroutine_id, current, running,
          interrupt_fd, interrupt_fd_fd, tick_count, ctl, out, pipes, reads,
          timer, events, tick_base,
          served, picks>>

machine == <<coroutines, coroutine_ids, next_coroutine_id, current, running,
             interrupt_fd, tick_count>>

hist == <<served, picks>>

\* What the initialisation of the machine fixes.
fixed == <<tick_base, interrupt_fd_fd>>

env == <<out, pipes, reads, timer, events, fixed>>

----------------------------------------------------------------------------
(* Bounds of the model. *)

\* The general specification: coroutines that may be live at once, and the
\* scheduler ticks explored (the guards cap tick_count).
MaxCoroutines == 2
MaxTick == 4
\* The generator specification: live coroutines, ticks, and the values
\* 1..NumValues the Generator yields.
MaxGenCoroutines == 3
MaxGenTick == 11
NumValues == 1
\* The fairness specification: coroutines that yield in a loop, and ticks.
MaxYielders == 3
MaxFairTick == 9
\* The spawning specification: live coroutines and ticks.
MaxSpawnCoroutines == 3
MaxSpawnTick == 6
\* The call specification: live coroutines and ticks.
MaxCallers == 3
MaxCallTick == 5

\* The identifier specification: live coroutines and ticks.
MaxIds == 33
MaxIdTick == 1

\* The long-run specification: coroutines and ticks after the first run.
MaxWideCoroutines == 2
MaxWideTick == 4
\* The pipe specification: messages of the Writer (20 in main.c) and ticks.
NumMessages == 3
MaxPipeTick == 40

\* The failure specification: coroutines.
MaxFailCoroutines == 2
\* The constructor specification: coroutines and ticks.
MaxConstructed == 2
MaxConstructedTick == 4
\* The event specification: descriptors and the value of a counter.
MaxEvents == 3
MaxEventCount == 4
\* The destruction specification: coroutines and ticks.
MaxDestructCoroutines == 2
MaxDestructTick == 3

(* Program constants. *)
WordBits == 32
NULL == 0
NoFd == -1
\* Descriptors a task may wait on: one that is always ready, one that never is.
ReadyFd == 3
IdleFd == 4
Fds == {ReadyFd, IdleFd}
\* The descriptors of main.c: the two ends of the pipe and the timer of Co1.
PipeReadFd == 6
PipeWriteFd == 7
TimerFd == 8
\* The largest int, and 2^30.
IntMax == 2147483647
TwoTo30 == 1073741824
\* What a successful malloc of a stack and a successful eventfd() return.
StackMem == 1
EventFd == 5

----------------------------------------------------------------------------
(* bitset.c *)

CalcWord(index) == index \div WordBits
CalcBit(index) == index % WordBits

\* A BitSet is [capacity, value]: value[w] is the set of bits set in word w.
BitSetInit == [capacity |-> 0, value |-> <<>>]

MakeRoomFor(set, index) ==
  LET words_required == (index + WordBits) \div WordBits IN
  IF words_required > set.capacity
    THEN [capacity |-> words_required,
          value |-> [w \in 1..words_required |->
                       IF w <= set.capacity THEN set.value[w] ELSE {}]]
    ELSE set

BitSetInsert(set, index) ==
  LET s == MakeRoomFor(set, index) IN
  [s EXCEPT !.value[CalcWord(index) + 1] = @ \cup {CalcBit(index)}]

BitSetContains(set, index) ==
  IF CalcWord(index) >= set.capacity
    THEN FALSE
    ELSE CalcBit(index) \in set.value[CalcWord(index) + 1]

BitSetRemove(set, index) ==
  LET s == MakeRoomFor(set, index) IN
  [s EXCEPT !.value[CalcWord(index) + 1] = @ \ {CalcBit(index)}]

\* The indexes a bitset holds.
BitSetMembers(set) ==
  {i \in 0..(set.capacity * WordBits - 1) : BitSetContains(set, i)}

\* BitSetFindFirstClear: the first clear bit of the allocated words, or -1.
BitSetFindFirstClear(set) ==
  LET clear == {i \in 0..(set.capacity * WordBits - 1) : ~BitSetContains(set, i)} IN
  IF clear = {} THEN -1 ELSE CHOOSE i \in clear : \A j \in clear : i <= j

----------------------------------------------------------------------------
(* Coroutine structs *)

States == {"New", "Ready", "Running", "Yielded", "Waiting", "Dead"}

\* Memory that holds no coroutine (never used, or freed).  The field resume
\* stands for the jmp_buf of that name: the operation whose setjmp it holds
\* while the coroutine is suspended.
NoCo == [mem |-> "none", state |-> "Dead", id |-> 0, last_tick |-> 0,
         event_fd |-> FALSE, wait_fd |-> NoFd, caller |-> NULL, result |-> NULL,
         needs_free |-> FALSE, functor |-> "none", callee |-> NULL, value |-> 0,
         pc |-> 0, i |-> 0, generator |-> NULL, resume |-> "none",
         stack |-> NULL, event_fd_fd |-> NoFd, born |-> 0]

Addrs == DOMAIN co

\* The members of the live list.
Live == {coroutines[k] : k \in DOMAIN coroutines}

\* malloc / caller storage: the lowest address that holds no coroutine.
Alloc ==
  LET free == {a \in Addrs : co[a].mem = "none"} IN
  IF free = {} THEN Len(co) + 1 ELSE CHOOSE a \in free : \A b \in free : a <= b

\* CoroutineMachineAllocateId: [id, ids, next].
CoroutineMachineAllocateId ==
  LET first == BitSetFindFirstClear(coroutine_ids)
      id == IF first = -1 THEN next_coroutine_id ELSE first IN
  [id |-> id,
   ids |-> BitSetInsert(coroutine_ids, id),
   next |-> IF first = -1 THEN next_coroutine_id + 1 ELSE next_coroutine_id]

\* CoroutineInitWithStackSize, and NewCoroutine on top of it: the new struct.
CoroutineInitWithStackSize(id, functor, heap) ==
  [mem |-> IF heap THEN "heap" ELSE "owned", state |-> "New", id |-> id,
   last_tick |-> 0 - tick_base, event_fd |-> FALSE, wait_fd |-> NoFd,
   caller |-> NULL,
   result |-> NULL, needs_free |-> heap, functor |-> functor, callee |-> NULL,
   value |-> 0, pc |-> 0, i |-> 0, generator |-> NULL, resume |-> "none",
   stack |-> StackMem, event_fd_fd |-> EventFd, born |-> tick_count]

\* The struct store with a new coroutine at address a.
Store(a, c) ==
  IF a \in Addrs THEN [co EXCEPT ![a] = c] ELSE Append(co, c)

----------------------------------------------------------------------------
(* Construction and Start *)

\* CoroutineMachineInit, where NewEventFd returns fd.  It sets
\* interrupt_fd.fd and .events and leaves interrupt_fd.revents uninitialized.
MachineInit(fd) ==
  /\ coroutines = <<>>
  /\ coroutine_ids = BitSetInit
  /\ next_coroutine_id = 0
  /\ current = NULL
  /\ running = FALSE
  /\ interrupt_fd = FALSE
  /\ interrupt_fd_fd = fd
  /\ tick_count = 0

\* CoroutineMachineInit when the descriptor can be created.
CoroutineMachineInit ==
  MachineInit(EventFd)

\* main before it creates a coroutine: pipe(pipes) has been called, nothing
\* is written or printed, the timer of Co1 does not exist yet.
MainInit ==
  /\ ctl = "main"
  /\ out = <<>>
  /\ pipes = [data |-> <<>>, closed |-> FALSE]
  /\ reads = <<>>
  /\ timer = FALSE
  /\ events = <<>>
  /\ served = {}
  /\ picks = <<>>

Init ==
  /\ CoroutineMachineInit
  /\ MainInit
  /\ co = <<>>
  /\ tick_base = 0

\* CoroutineInit / NewCoroutine: allocate an id, build the struct, append it
\* to the live list (CoroutineMachineAddCoroutine).
Create(a, functor, heap) ==
  LET alloc == CoroutineMachineAllocateId IN
  /\ co' = Store(a, CoroutineInitWithStackSize(alloc.id, functor, heap))
  /\ coroutines' = Append(coroutines, a)
  /\ coroutine_ids' = alloc.ids
  /\ next_coroutine_id' = alloc.next

\* The constructors of coroutine.c.
Constructors ==
  {"CoroutineInit", "CoroutineInitWithStackSize", "CoroutineInitWithUserData",
   "CoroutineInitWithStackSizeAndUserData", "NewCoroutine",
   "NewCoroutineWithStackSize", "NewCoroutineWithUserData",
   "NewCoroutineWithStackSizeAndUserData"}

\* The constructors that malloc the struct.
NewConstructors ==
  {"NewCoroutine", "NewCoroutineWithStackSize", "NewCoroutineWithUserData",
   "NewCoroutineWithStackSizeAndUserData"}

\* The struct a constructor leaves, where malloc(stack_size) returns stack
\* and NewEventFd returns fd.  CoroutineInitWithStackSize sets needs_free to
\* false; of the constructors only NewCoroutine sets it afterwards, and
\* NewCoroutineWithUserData is built on NewCoroutine.
Constructed(constructor, id, functor, stack, fd) ==
  [CoroutineInitWithStackSize(id, functor, constructor \in NewConstructors)
     EXCEPT !.needs_free =
              constructor \in {"NewCoroutine", "NewCoroutineWithUserData"},
            !.stack = stack,
            !.event_fd_fd = fd]

\* A constructor call: allocate an id, build the struct, append it to the
\* live list.  No constructor tests what malloc and NewEventFd return, and
\* all of them return void or the pointer to the struct.
Construct(a, constructor, functor, stack, fd) ==
  LET alloc == CoroutineMachineAllocateId IN
  /\ co' = Store(a, Constructed(constructor, alloc.id, functor, stack, fd))
  /\ coroutines' = Append(coroutines, a)
  /\ coroutine_ids' = alloc.ids
  /\ next_coroutine_id' = alloc.next

\* main calls a constructor.
MainConstruct(limit, constructors, stacks, fds) ==
  /\ ctl = "main"
  /\ Len(coroutines) < limit
  /\ \E constructor \in constructors, stack \in stacks, fd \in fds :
       Construct(Alloc, constructor, "Worker", stack, fd)
  /\ UNCHANGED <<current, running, interrupt_fd, tick_count, ctl, env, hist>>

\* A faulty Start, which makes the coroutine Ready whatever its state.
CoroutineStartAlways(c) ==
  [c EXCEPT !.state = "Ready"]

\* CoroutineStart: the struct after Start.
CoroutineStart(c) ==
  IF c.state = "New" THEN [c EXCEPT !.state = "Ready"] ELSE c

\* A faulty loop test, which gives up while one coroutine is left.
RunLoopLeavesOne(run, list) ==
  IF run /\ Len(list) > 1 THEN "poll" ELSE "done"

\* The while condition and the length test of CoroutineMachineRun: the loop
\* goes on to GetRunnableCoroutine ("poll") or Run returns ("done").
RunLoop(run, list) ==
  IF run /\ Len(list) # 0 THEN "poll" ELSE "done"

\* main creates a coroutine before (or between) runs.
MainCreate(limit, functors, heaps) ==
  /\ ctl = "main"
  /\ Len(coroutines) < limit
  /\ \E functor \in functors, heap \in heaps : Create(Alloc, functor, heap)
  /\ UNCHANGED <<current, running, interrupt_fd, tick_count,
                 ctl, env, hist>>

MainStart ==
  /\ ctl = "main"
  /\ \E a \in Live :
       /\ co[a].state = "New"
       /\ co' = [co EXCEPT ![a] = CoroutineStart(@)]
  /\ UNCHANGED <<machine, ctl, env, hist>>

\* CoroutineMachineRun is entered.
MainRun ==
  /\ ctl = "main"
  /\ running' = TRUE
  /\ ctl' = RunLoop(TRUE, coroutines)
  /\ UNCHANGED <<co, coroutines, coroutine_ids, next_coroutine_id, current,
                 interrupt_fd, tick_count, env, hist>>

----------------------------------------------------------------------------
(* The scheduler tick: GetRunnableCoroutine and Resume *)

\* A faulty loop, which skips Running and Dead coroutines and gives a New
\* one an entry.
BlockedWithNew ==
  SelectSeq(coroutines, LAMBDA a : co[a].state \notin {"Running", "Dead"})

\* m->blocked_coroutines: the live coroutines that get a pollfd, in list order.
Blocked ==
  SelectSeq(coroutines, LAMBDA a : co[a].state \notin {"New", "Running", "Dead"})

\* GetPollFd(c) for the coroutine at a: its event descriptor, its wait
\* descriptor, or the empty pollfd.
GetPollFd(a) ==
  CASE co[a].state \in {"Ready", "Yielded"} -> <<"event", a>>
    [] co[a].state = "Waiting" -> <<"wait", co[a].wait_fd>>
    [] OTHER -> <<"empty", NoFd>>

\* m->pollfds[0 .. num_pollfds-1] as GetRunnableCoroutine builds it: the
\* interrupt descriptor, then AddPollFd for each blocked coroutine.
RECURSIVE PollFdsUpTo(_)
PollFdsUpTo(k) ==
  IF k = 0 THEN << <<"interrupt", interrupt_fd_fd>> >>
  ELSE Append(PollFdsUpTo(k - 1), GetPollFd(Blocked[k]))

PollFds ==
  PollFdsUpTo(Len(Blocked))

\* The loop over the live list triggers the event of every Ready coroutine:
\* here for the addresses 1..k, then for all of them.
RECURSIVE TriggerReadyUpTo(_, _)
TriggerReadyUpTo(cs, k) ==
  IF k = 0 THEN cs
  ELSE LET rest == TriggerReadyUpTo(cs, k - 1) IN
       IF k \in Live /\ cs[k].state = "Ready"
         THEN [rest EXCEPT ![k].event_fd = TRUE] ELSE rest

TriggerReady(cs) ==
  TriggerReadyUpTo(cs, Len(cs))

\* A faulty poll, which reports every descriptor a coroutine waits on.
PollReadyAnyWait(c) ==
  CASE c.state \in {"Ready", "Yielded"} -> c.event_fd
    [] c.state = "Waiting" -> c.wait_fd # NoFd
    [] OTHER -> FALSE

\* poll on a descriptor a task waits on.  The read end of the pipe reports
\* when there are bytes or the write end is closed, the write end while there
\* is room (the 20 short messages never fill the pipe), the timer when it has
\* expired and has not been read.
FdReady(fd) ==
  CASE fd = ReadyFd -> TRUE
    [] fd = PipeReadFd -> pipes.data # <<>> \/ pipes.closed
    [] fd = PipeWriteFd -> TRUE
    [] fd = TimerFd -> timer
    [] OTHER -> FALSE

\* GetPollFd and poll: the descriptor polled for c reports readiness.
\* A Ready or Yielded coroutine is polled on its event descriptor, a Waiting
\* one on its wait descriptor.
PollReady(c) ==
  CASE c.state \in {"Ready", "Yielded"} -> c.event_fd
    [] c.state = "Waiting" -> FdReady(c.wait_fd)
    [] OTHER -> FALSE

\* A faulty comparison, which sorts the most recently suspended first.
CompareTickReversed(cs, t, c1, c2) ==
  LET t1 == t - cs[c1].last_tick
      t2 == t - cs[c2].last_tick IN
  t1 - t2

\* (int)(x - y) for x and y that are ints: the difference modulo 2^32, as a
\* signed value, computed without leaving the range of int.
Truncated(x, y) ==
  IF x >= 0 /\ y < 0
    THEN IF (x - TwoTo30) - TwoTo30 >= y
           THEN ((x - TwoTo30) - TwoTo30) - ((y + TwoTo30) + TwoTo30)
           ELSE x - y
    ELSE IF x < 0 /\ y >= 0
           THEN IF (x + TwoTo30) + TwoTo30 < y
                  THEN ((x + TwoTo30) + TwoTo30) - ((y - TwoTo30) - TwoTo30)
                  ELSE x - y
           ELSE x - y

\* CompareTick(c1, c2), for the struct store cs and tick count t.  With
\* t1 = t - last_tick of c1 and t2 = t - last_tick of c2 in uint64_t, t2 - t1
\* is last_tick of c1 minus last_tick of c2 modulo 2^64, whatever t is, and
\* the conversion to int keeps its low 32 bits.
CompareTick(cs, t, c1, c2) ==
  Truncated(cs[c1].last_tick, cs[c2].last_tick)

\* A faulty choice, which takes the stalest coroutine of the whole live list,
\* blocked or not.
FirstsOfLive(cs, t, runnables) ==
  {c \in Live : \A d \in Live : CompareTick(cs, t, c, d) <= 0}

\* A faulty clear, which leaves the event descriptor of a coroutine that was
\* polled on its wait descriptor as it is.
ClearEventUnlessWaiting(cs, a) ==
  IF cs[a].state = "Waiting" THEN cs ELSE [cs EXCEPT ![a].event_fd = FALSE]

\* CoroutineClearEvent(chosen): the read resets the event descriptor of the
\* coroutine, whatever descriptor it was polled on.
CoroutineClearEvent(cs, a) ==
  [cs EXCEPT ![a].event_fd = FALSE]

\* What qsort may leave in runnables[0]: an element no other sorts before.
Firsts(cs, t, runnables) ==
  {c \in runnables : \A d \in runnables : CompareTick(cs, t, c, d) <= 0}

\* A faulty Resume, in which the Wait that returns leaves the wait descriptor
\* as it is.
ResumeKeepsWaitFd(cs, c) ==
  LET callee == cs[c].callee
      cs1 == [cs EXCEPT ![c].state = "Running",
                        ![c].callee = NULL, ![c].resume = "none",
                        ![c].born = 0] IN
  IF callee # NULL /\ callee \in DOMAIN cs /\ cs[callee].mem # "none"
    THEN [cs1 EXCEPT ![callee].caller = NULL, ![callee].result = NULL]
    ELSE cs1

\* A faulty Resume, in which the Call that returns leaves the caller and the
\* result slot of its callee as they are.
ResumeKeepsCaller(cs, c) ==
  [cs EXCEPT ![c].state = "Running", ![c].wait_fd = NoFd,
             ![c].callee = NULL, ![c].resume = "none", ![c].born = 0]

\* Resume of a suspended coroutine continues the operation it suspended in
\* (born, the tick of its creation, is history kept until it first runs):
\* CoroutineWait clears the wait descriptor, CoroutineCall clears the callee's
\* caller and result (a callee whose memory was freed is written blindly).
Resume(cs, c) ==
  LET callee == cs[c].callee
      cs1 == [cs EXCEPT ![c].state = "Running", ![c].wait_fd = NoFd,
                        ![c].callee = NULL, ![c].resume = "none",
                        ![c].born = 0] IN
  IF callee # NULL /\ callee \in DOMAIN cs /\ cs[callee].mem # "none"
    THEN [cs1 EXCEPT ![callee].caller = NULL, ![callee].result = NULL]
    ELSE cs1

\* runnables[0 .. index-1]: the blocked coroutines whose descriptor poll
\* reports, after the events of the Ready ones have been triggered.
Runnables ==
  LET cs == TriggerReady(co) IN
  {Blocked[k] : k \in DOMAIN Blocked} \cap {a \in Addrs : PollReady(cs[a])}

\* "if (m->interrupt_fd.revents != 0) ClearEvent(m->interrupt_fd.fd)": poll
\* reports in its own copy of the pollfd (AddPollFd copies), so the test reads
\* the field of the machine, which no code writes: it is uninitialized, and
\* the descriptor is cleared (revents # 0) or left as it is.
ClearInterrupt(revents) ==
  IF revents THEN FALSE ELSE interrupt_fd

\* One call of GetRunnableCoroutine whose poll succeeds, then Resume.
Tick(record, cap) ==
  /\ ctl = "poll"
  /\ tick_count < cap \/ (~running /\ tick_count <= cap)
  /\ LET cs == TriggerReady(co)
         runnables == {Blocked[k] : k \in DOMAIN Blocked} \cap
                        {a \in Addrs : PollReady(cs[a])}
         num_ready == Cardinality(runnables) + (IF interrupt_fd THEN 1 ELSE 0)
     IN
     /\ num_ready > 0
     /\ tick_count' = tick_count + 1
     /\ \E revents \in BOOLEAN : interrupt_fd' = ClearInterrupt(revents)
     /\ IF ~running \/ runnables = {}
          THEN /\ current' = NULL
               /\ co' = cs
               /\ ctl' = RunLoop(running, coroutines)
               /\ picks' = picks
          ELSE \E chosen \in Firsts(cs, tick_count + 1, runnables) :
                 /\ current' = chosen
                 /\ co' = Resume(CoroutineClearEvent(cs, chosen), chosen)
                 /\ ctl' = "co"
                 /\ picks' = IF record THEN Append(picks, chosen) ELSE picks
  /\ UNCHANGED <<coroutines, coroutine_ids, next_coroutine_id, running, env, served>>

\* A faulty failure path, which counts the failed poll as a tick.
PollFailsCountsTick ==
  /\ ctl = "poll"
  /\ co' = TriggerReady(co)
  /\ current' = NULL
  /\ tick_count' = tick_count + 1
  /\ ctl' = RunLoop(running, coroutines)
  /\ UNCHANGED <<coroutines, coroutine_ids, next_coroutine_id, running,
                 interrupt_fd, env, hist>>

\* poll fails or is interrupted: GetRunnableCoroutine returns NULL at once.
PollFails ==
  /\ ctl = "poll"
  /\ co' = TriggerReady(co)
  /\ current' = NULL
  /\ ctl' = RunLoop(running, coroutines)
  /\ UNCHANGED <<coroutines, coroutine_ids, next_coroutine_id, running,
                 interrupt_fd, tick_count, env, hist>>

----------------------------------------------------------------------------
(* Operations of the running coroutine *)

\* The coroutine that is executing.
Me == current

InCo == ctl = "co" /\ current # NULL

\* A faulty suspension, which resets last_tick.
SuspendResetsTick(c, state) ==
  [c EXCEPT !.state = state, !.last_tick = 0]

\* A faulty suspension, which does not record the tick.
SuspendKeepsTick(c, state) ==
  [c EXCEPT !.state = state]

\* A faulty suspension, which marks the coroutine Ready.
SuspendAsReady(c, state) ==
  [c EXCEPT !.state = "Ready", !.last_tick = tick_count]

\* A faulty suspension, which records the tick and leaves the state Running.
SuspendKeepsRunning(c, state) ==
  [c EXCEPT !.last_tick = tick_count]

\* The suspension common to Wait, Yield, YieldValue and Call: the state and
\* last_tick of c, before the longjmp to m->yield.
Suspend(c, state) ==
  [c EXCEPT !.state = state, !.last_tick = tick_count]

\* A faulty Yield, which suspends without signalling its own event.
CoroutineYieldNoSignal(c) ==
  [Suspend(c, "Yielded") EXCEPT !.resume = "Yield"]

\* CoroutineYield: the struct after the call has suspended.
CoroutineYield(c) ==
  [Suspend(c, "Yielded") EXCEPT !.event_fd = TRUE, !.resume = "Yield"]

\* CoroutineWait, up to the longjmp.
CoroutineWait(c, fd) ==
  [Suspend(c, "Waiting") EXCEPT !.wait_fd = fd, !.resume = "Wait"]

\* TriggerEvent on the event descriptor of the struct at a; the descriptor of
\* a destructed coroutine is closed and the write fails.
CoroutineTriggerEvent(cs, a) ==
  IF a \in DOMAIN cs /\ cs[a].mem # "none" /\ cs[a].state # "Dead"
    THEN [cs EXCEPT ![a].event_fd = TRUE] ELSE cs

\* A faulty YieldValue, which delivers to the first coroutine suspended in a
\* Call on it instead of the registered caller and slot.
CoroutineYieldValueToFirst(cs, a, v) ==
  LET callers == {c \in DOMAIN cs : cs[c].mem # "none" /\ cs[c].callee = a}
      first == IF callers = {} THEN NULL
               ELSE CHOOSE c \in callers : \A d \in callers : c <= d
      cs1 == IF first # NULL
               THEN [cs EXCEPT ![first].value = v, ![first].event_fd = TRUE]
               ELSE cs IN
  [cs1 EXCEPT ![a] = [Suspend(@, "Yielded") EXCEPT !.resume = "YieldValue"]]

\* A faulty YieldValue, which signals its own event as Yield does.
CoroutineYieldValueSignals(cs, a, v) ==
  LET c == cs[a]
      cs1 == IF c.result # NULL /\ c.result \in DOMAIN cs /\ cs[c.result].mem # "none"
               THEN [cs EXCEPT ![c.result].value = v] ELSE cs
      cs2 == IF c.caller # NULL THEN CoroutineTriggerEvent(cs1, c.caller) ELSE cs1 IN
  [cs2 EXCEPT ![a] = [Suspend(@, "Yielded") EXCEPT !.resume = "YieldValue",
                                                   !.event_fd = TRUE]]

\* CoroutineYieldValue, up to the longjmp: copy into the result slot, trigger
\* the caller, suspend without triggering the own event.
CoroutineYieldValue(cs, a, v) ==
  LET c == cs[a]
      cs1 == IF c.result # NULL /\ c.result \in DOMAIN cs /\ cs[c.result].mem # "none"
               THEN [cs EXCEPT ![c.result].value = v] ELSE cs
      cs2 == IF c.caller # NULL THEN CoroutineTriggerEvent(cs1, c.caller) ELSE cs1 IN
  [cs2 EXCEPT ![a] = [Suspend(@, "Yielded") EXCEPT !.resume = "YieldValue"]]

\* CoroutineCall, up to the longjmp.  The result slot is the caller's value.
CoroutineCall(cs, a, callee) ==
  LET cs1 == [cs EXCEPT ![callee].caller = a, ![callee].result = a]
      cs2 == IF cs1[callee].state = "New"
               THEN [cs1 EXCEPT ![callee] = CoroutineStart(@)]
               ELSE CoroutineTriggerEvent(cs1, callee) IN
  [cs2 EXCEPT ![a] = [Suspend(@, "Yielded") EXCEPT !.callee = callee, !.value = 0,
                                                   !.resume = "Call"]]

\* A faulty removal, which leaves the list as it is.
RemoveKeepsAll(list, a) ==
  list

\* A faulty removal, which drops the whole list.
RemoveDropsAll(list, a) ==
  <<>>

\* CoroutineMachineRemoveCoroutine: the live list without c.
RemoveFromList(list, a) ==
  SelectSeq(list, LAMBDA b : b # a)

\* CoroutineDelete frees the struct, CoroutineDestruct leaves it to its owner
\* with the descriptors closed.  The locals of the task are gone either way, and
\* with them a coroutine the task kept on its stack.
Destructed(cs, a) ==
  LET g == cs[a].generator
      cs1 == IF cs[a].needs_free
               THEN [cs EXCEPT ![a] = NoCo]
               ELSE [cs EXCEPT ![a].state = "Dead", ![a].event_fd = FALSE,
                               ![a].callee = NULL, ![a].value = 0, ![a].pc = 0,
                               ![a].i = 0, ![a].generator = NULL,
                               ![a].resume = "none"] IN
  IF g # NULL /\ cs[g].state = "Dead" THEN [cs1 EXCEPT ![g] = NoCo] ELSE cs1

\* The task function returns or calls CoroutineExit: the rest of Resume, then
\* the loop test of CoroutineMachineRun.
Terminate ==
  LET a == Me
      cs1 == IF co[a].caller # NULL
               THEN CoroutineTriggerEvent(co, co[a].caller) ELSE co IN
  /\ co' = Destructed(cs1, a)
  /\ coroutines' = RemoveFromList(coroutines, a)
  /\ coroutine_ids' = IF a \in Live THEN BitSetRemove(coroutine_ids, co[a].id)
                                    ELSE coroutine_ids
  /\ ctl' = RunLoop(running, coroutines')
  /\ served' = served \cup {c \in Addrs : co[c].callee = a}
  /\ UNCHANGED <<next_coroutine_id, current, running, interrupt_fd, tick_count,
                 env, picks>>

\* A suspension leaves the thread in GetRunnableCoroutine, whatever m->running is.
Suspended ==
  /\ ctl' = "poll"
  /\ UNCHANGED <<machine, env, picks>>

CoYield ==
  /\ InCo /\ co[Me].functor = "Worker"
  /\ co' = [co EXCEPT ![Me] = CoroutineYield(@)]
  /\ Suspended /\ UNCHANGED served

CoWait ==
  /\ InCo /\ co[Me].functor = "Worker"
  /\ \E fd \in Fds : co' = [co EXCEPT ![Me] = CoroutineWait(@, fd)]
  /\ Suspended /\ UNCHANGED served

\* The callers that a YieldValue of a answers: it copied into their slot.
Answered(a) ==
  {c \in Addrs : co[c].callee = a /\ co[a].result = c}

CoYieldValue(values) ==
  /\ InCo /\ co[Me].functor = "Worker"
  /\ \E v \in values : co' = CoroutineYieldValue(co, Me, v)
  /\ served' = served \cup Answered(Me)
  /\ Suspended

CoCall ==
  /\ InCo /\ co[Me].functor = "Worker"
  /\ \E callee \in Live \ {Me} :
       /\ co' = CoroutineCall(co, Me, callee)
       /\ served' = served \ {Me}
  /\ Suspended

CoExit ==
  /\ InCo /\ co[Me].functor = "Worker"
  /\ Terminate

\* CoroutineStart called by the running task, on any live coroutine.
CoStart ==
  /\ InCo /\ co[Me].functor = "Worker"
  /\ \E a \in Live : co' = [co EXCEPT ![a] = CoroutineStart(@)]
  /\ UNCHANGED <<machine, ctl, env, hist>>

\* NewCoroutine followed by CoroutineStart, as the Listener of the http server does.
CoSpawn(limit, functors) ==
  /\ InCo /\ co[Me].functor = "Worker"
  /\ Len(coroutines) < limit
  /\ \E functor \in functors :
       LET a == Alloc
           alloc == CoroutineMachineAllocateId IN
       /\ co' = Store(a, CoroutineStart(
                  CoroutineInitWithStackSize(alloc.id, functor, TRUE)))
       /\ coroutines' = Append(coroutines, a)
       /\ coroutine_ids' = alloc.ids
       /\ next_coroutine_id' = alloc.next
  /\ UNCHANGED <<current, running, interrupt_fd, tick_count,
                 ctl, env, hist>>

\* A faulty Stop, which clears the flag and does not trigger the interrupt
\* descriptor.
StopWithoutTrigger ==
  /\ running' = FALSE
  /\ UNCHANGED <<co, coroutines, coroutine_ids, next_coroutine_id, current,
                 interrupt_fd, tick_count, ctl, env, hist>>

\* A faulty Stop, which also drops the coroutines that are not running from
\* the live list.
StopUnwinds ==
  /\ running' = FALSE
  /\ interrupt_fd' = TRUE
  /\ coroutines' = SelectSeq(coroutines, LAMBDA a : co[a].state = "Running")
  /\ UNCHANGED <<co, coroutine_ids, next_coroutine_id, current, tick_count,
                 ctl, env, hist>>

\* CoroutineMachineStop, called by the running coroutine.
CoroutineMachineStop ==
  /\ running' = FALSE
  /\ interrupt_fd' = TRUE
  /\ UNCHANGED <<co, coroutines, coroutine_ids, next_coroutine_id, current,
                 tick_count, ctl, env, hist>>

CoStop ==
  /\ InCo /\ co[Me].functor = "Worker"
  /\ running
  /\ CoroutineMachineStop

\* CoroutineMachineStop from a signal handler while poll blocks: no
\* descriptor of the poll set is ready.
SignalStop(cap) ==
  /\ ctl = "poll"
  /\ running
  /\ ~interrupt_fd
  /\ tick_count <= cap
  /\ \A a \in Live : ~PollReady(TriggerReady(co)[a])
  /\ CoroutineMachineStop

\* NewCoroutine followed by CoroutineStart, by main.
MainSpawn(limit, functors) ==
  /\ ctl = "main"
  /\ Len(coroutines) < limit
  /\ \E functor \in functors :
       LET a == Alloc
           alloc == CoroutineMachineAllocateId IN
       /\ co' = Store(a, CoroutineStart(
                  CoroutineInitWithStackSize(alloc.id, functor, TRUE)))
       /\ coroutines' = Append(coroutines, a)
       /\ coroutine_ids' = alloc.ids
       /\ next_coroutine_id' = alloc.next
  /\ UNCHANGED <<current, running, interrupt_fd, tick_count, ctl, env, hist>>

----------------------------------------------------------------------------
(* The task functions of main.c *)

\* CoroutineIsAlive(c, query), for the struct at address a.
CoroutineIsAlive(a) ==
  BitSetContains(coroutine_ids, co[a].id)

\* Co1 is entered: CoroutineInit(&generator, c->machine, Generator), the
\* generator being a local of Co1.
Co1Init ==
  /\ InCo /\ co[Me].functor = "Co1" /\ co[Me].pc = 0
  /\ LET a == Alloc
         alloc == CoroutineMachineAllocateId
         cs == Store(a, CoroutineInitWithStackSize(alloc.id, "Generator", FALSE)) IN
     /\ co' = [cs EXCEPT ![Me].generator = a, ![Me].pc = 1]
     /\ coroutines' = Append(coroutines, a)
     /\ coroutine_ids' = alloc.ids
     /\ next_coroutine_id' = alloc.next
  /\ UNCHANGED <<current, running, interrupt_fd, tick_count, ctl, env, hist>>

\* while (CoroutineIsAlive(c, &generator)) { int value = 0; CoroutineCall(...)
Co1Call ==
  /\ InCo /\ co[Me].functor = "Co1" /\ co[Me].pc = 1
  /\ CoroutineIsAlive(co[Me].generator)
  /\ co' = [CoroutineCall(co, Me, co[Me].generator) EXCEPT ![Me].pc = 2]
  /\ served' = IF co[co[Me].generator].state = "Dead"
                 THEN served \cup {Me} ELSE served \ {Me}
  /\ Suspended

\* The Call has returned and the generator is alive: print the value and
\* wait for the timer.
Co1Print ==
  /\ InCo /\ co[Me].functor = "Co1" /\ co[Me].pc = 2
  /\ CoroutineIsAlive(co[Me].generator)
  /\ out' = Append(out, co[Me].value)
  /\ UNCHANGED <<pipes, reads, timer, events, fixed>>
  /\ co' = [co EXCEPT ![Me] = [CoroutineWait(@, ReadyFd) EXCEPT !.pc = 1]]
  /\ ctl' = "poll"
  /\ UNCHANGED <<machine, hist>>

\* The generator is not alive: the loop ends and Co1 returns.
Co1Return ==
  /\ InCo /\ co[Me].functor = "Co1" /\ co[Me].pc \in {1, 2}
  /\ ~CoroutineIsAlive(co[Me].generator)
  /\ Terminate

\* for (int i = 1; i < 5; i++) CoroutineYieldValue(c, &i);
GenYield ==
  /\ InCo /\ co[Me].functor = "Generator"
  /\ co[Me].i < NumValues
  /\ co' = [CoroutineYieldValue(co, Me, co[Me].i + 1) EXCEPT ![Me].i = @ + 1]
  /\ served' = served \cup Answered(Me)
  /\ Suspended

GenReturn ==
  /\ InCo /\ co[Me].functor = "Generator"
  /\ co[Me].i = NumValues
  /\ Terminate

----------------------------------------------------------------------------
(* The general specification: main creates and starts coroutines and runs   *)
(* the machine; every task is free to call any operation at any point.     *)

Next ==
  \/ MainCreate(MaxCoroutines, {"Worker"}, {TRUE})
  \/ MainStart
  \/ MainRun
  \/ Tick(FALSE, MaxTick)
  \/ PollFails
  \/ CoYield
  \/ CoWait
  \/ CoYieldValue({1})
  \/ CoCall
  \/ CoExit
  \/ CoSpawn(MaxCoroutines, {"Worker"})
  \/ CoStart
  \/ CoStop
  \/ SignalStop(MaxTick)

Spec == Init /\ [][Next]_vars

(* The generator specification: main.c with Co1 created and started, other  *)
(* tasks beside it that wait, yield, spawn tasks and return.               *)

MainSpawnCo1 ==
  /\ \A a \in Addrs : co[a].functor # "Co1"
  /\ MainSpawn(MaxGenCoroutines, {"Co1"})

MainSpawnWorker ==
  MainSpawn(MaxGenCoroutines, {"Worker"})

NextGen ==
  \/ MainSpawnCo1
  \/ MainSpawnWorker
  \/ MainRun
  \/ Tick(FALSE, MaxGenTick)
  \/ Co1Init
  \/ Co1Call
  \/ Co1Print
  \/ Co1Return
  \/ GenYield
  \/ GenReturn
  \/ CoYield
  \/ CoWait
  \/ CoExit
  \/ CoSpawn(MaxGenCoroutines, {"Worker"})

SpecGen == Init /\ [][NextGen]_vars

(* The fairness specification: main starts coroutines that yield in a loop. *)

MainSpawnYielder ==
  MainSpawn(MaxYielders, {"Worker"})

NextFair ==
  \/ MainSpawnYielder
  \/ MainRun
  \/ Tick(TRUE, MaxFairTick)
  \/ CoYield

SpecFair == Init /\ [][NextFair]_vars

(* The spawning specification: tasks that yield, wait, return and start new *)
(* tasks, as the Listener of the http server does.                         *)

NextSpawn ==
  \/ MainSpawn(MaxSpawnCoroutines, {"Worker"})
  \/ MainRun
  \/ Tick(FALSE, MaxSpawnTick)
  \/ CoYield
  \/ CoWait
  \/ CoExit
  \/ CoSpawn(MaxSpawnCoroutines, {"Worker"})

SpecSpawn == Init /\ [][NextSpawn]_vars

(* The identifier specification: many coroutines, each returning at once    *)
(* or starting another first.                                              *)

NextIds ==
  \/ MainSpawn(MaxIds, {"Worker"})
  \/ MainRun
  \/ Tick(FALSE, MaxIdTick)
  \/ CoExit
  \/ CoSpawn(MaxIds, {"Worker"})

SpecIds == Init /\ [][NextIds]_vars

(* The call specification: tasks that Call each other, yield values and     *)
(* return.                                                                 *)

NextCall ==
  \/ MainCreate(MaxCallers, {"Worker"}, {TRUE})
  \/ MainStart
  \/ MainRun
  \/ Tick(FALSE, MaxCallTick)
  \/ CoCall
  \/ CoYieldValue({1})
  \/ CoExit

SpecCall == Init /\ [][NextCall]_vars

(* The pipe specification: main.c as it is, with Co1 and its Generator, the *)
(* Writer and the Reader, and the timer of Co1 expiring at any time.       *)

\* Co1 prints the value and waits for its timer.
Co1PrintTimer ==
  /\ InCo /\ co[Me].functor = "Co1" /\ co[Me].pc = 2
  /\ CoroutineIsAlive(co[Me].generator)
  /\ out' = Append(out, co[Me].value)
  /\ co' = [co EXCEPT ![Me] = [CoroutineWait(@, TimerFd) EXCEPT !.pc = 3]]
  /\ ctl' = "poll"
  /\ UNCHANGED <<machine, pipes, reads, timer, events, fixed, hist>>

\* ClearTimer after the Wait has returned: the read resets the timer.
Co1ClearTimer ==
  /\ InCo /\ co[Me].functor = "Co1" /\ co[Me].pc = 3
  /\ timer' = FALSE
  /\ co' = [co EXCEPT ![Me].pc = 1]
  /\ UNCHANGED <<machine, ctl, out, pipes, reads, events, fixed, hist>>

\* The timer Co1 has set (its first expiry is at once, then every 100 ms)
\* expires.
TimerFires ==
  /\ \E a \in Addrs : co[a].functor = "Co1" /\ co[a].pc >= 1
  /\ ~timer
  /\ timer' = TRUE
  /\ UNCHANGED <<co, machine, ctl, out, pipes, reads, events, fixed, hist>>

\* Writer: CoroutineWait(c, pipes[1], POLLOUT) for message i.
WriterWait ==
  /\ InCo /\ co[Me].functor = "Writer" /\ co[Me].pc = 0
  /\ co[Me].i < NumMessages
  /\ co' = [co EXCEPT ![Me] = [CoroutineWait(@, PipeWriteFd) EXCEPT !.pc = 1]]
  /\ Suspended /\ UNCHANGED served

\* Writer: write(pipes[1], buf, n); CoroutineYield(c).
WriterWrite ==
  /\ InCo /\ co[Me].functor = "Writer" /\ co[Me].pc = 1
  /\ pipes' = [pipes EXCEPT !.data = Append(@, co[Me].i)]
  /\ co' = [co EXCEPT ![Me] = [CoroutineYield(@) EXCEPT !.pc = 0, !.i = @ + 1]]
  /\ ctl' = "poll"
  /\ UNCHANGED <<machine, out, reads, timer, events, fixed, hist>>

\* Writer: the loop is over, close(pipes[1]).
WriterClose ==
  /\ InCo /\ co[Me].functor = "Writer" /\ co[Me].pc = 0
  /\ co[Me].i = NumMessages
  /\ pipes' = [pipes EXCEPT !.closed = TRUE]
  /\ co' = [co EXCEPT ![Me].pc = 2]
  /\ UNCHANGED <<machine, ctl, out, reads, timer, events, fixed, hist>>

WriterReturn ==
  /\ InCo /\ co[Me].functor = "Writer" /\ co[Me].pc = 2
  /\ Terminate

\* Reader: CoroutineWait(c, pipes[0], POLLIN).
ReaderWait ==
  /\ InCo /\ co[Me].functor = "Reader" /\ co[Me].pc = 0
  /\ co' = [co EXCEPT ![Me] = [CoroutineWait(@, PipeReadFd) EXCEPT !.pc = 1]]
  /\ Suspended /\ UNCHANGED served

\* Reader: read(pipes[0], buf, sizeof(buf)) takes all the bytes in the pipe
\* (they fit in the 256 of buf) and prints them, or returns 0 at the end of
\* the file; on an empty pipe whose write end is open it would block.
ReaderRead ==
  /\ InCo /\ co[Me].functor = "Reader" /\ co[Me].pc = 1
  /\ pipes.data # <<>> \/ pipes.closed
  /\ reads' = Append(reads, pipes.data)
  /\ pipes' = [pipes EXCEPT !.data = <<>>]
  /\ co' = [co EXCEPT ![Me].pc = IF pipes.data = <<>> THEN 2 ELSE 0]
  /\ UNCHANGED <<machine, ctl, out, timer, events, fixed, hist>>

\* Reader: after "EOF", close(pipes[0]) and return.
ReaderReturn ==
  /\ InCo /\ co[Me].functor = "Reader" /\ co[Me].pc = 2
  /\ Terminate

\* main: NewCoroutine(&m, Writer) after c1 has been created and started.
MainNewWriter ==
  /\ Len(co) = 1
  /\ MainCreate(MaxGenCoroutines, {"Writer"}, {TRUE})

\* main: NewCoroutine(&m, Reader).
MainNewReader ==
  /\ Len(co) = 2
  /\ MainCreate(MaxGenCoroutines, {"Reader"}, {TRUE})

\* main: CoroutineStart(reader).
MainStartReader ==
  /\ ctl = "main"
  /\ \E a \in Live :
       /\ co[a].functor = "Reader" /\ co[a].state = "New"
       /\ co' = [co EXCEPT ![a] = CoroutineStart(@)]
  /\ UNCHANGED <<machine, ctl, env, hist>>

\* main: CoroutineStart(writer), after the reader has been started.
MainStartWriter ==
  /\ ctl = "main"
  /\ \E r \in Live : co[r].functor = "Reader" /\ co[r].state = "Ready"
  /\ \E a \in Live :
       /\ co[a].functor = "Writer" /\ co[a].state = "New"
       /\ co' = [co EXCEPT ![a] = CoroutineStart(@)]
  /\ UNCHANGED <<machine, ctl, env, hist>>

\* main: CoroutineMachineRun(&m), with the three coroutines started.
MainRunPipe ==
  /\ Len(co) = 3
  /\ \A a \in Live : co[a].state = "Ready"
  /\ MainRun

NextPipe ==
  \/ MainSpawnCo1
  \/ MainNewWriter
  \/ MainNewReader
  \/ MainStartReader
  \/ MainStartWriter
  \/ MainRunPipe
  \/ Tick(FALSE, MaxPipeTick)
  \/ TimerFires
  \/ Co1Init
  \/ Co1Call
  \/ Co1PrintTimer
  \/ Co1ClearTimer
  \/ Co1Return
  \/ GenYield
  \/ GenReturn
  \/ WriterWait
  \/ WriterWrite
  \/ WriterClose
  \/ WriterReturn
  \/ ReaderWait
  \/ ReaderRead
  \/ ReaderReturn

SpecPipe == Init /\ [][NextPipe]_vars

(* The long-run specification: a machine that has run IntMax ticks in a    *)
(* first Run, in which one heap coroutine yielded again and again and then  *)
(* returned; main now creates and starts coroutines and calls Run again.    *)
(* tick_count and last_tick are kept relative to IntMax.                    *)

InitWide ==
  /\ coroutines = <<>>
  /\ coroutine_ids = BitSetRemove(BitSetInsert(BitSetInit, 0), 0)
  /\ next_coroutine_id = 1
  /\ co = <<NoCo>>
  /\ current = 1
  /\ running = TRUE
  /\ interrupt_fd = FALSE
  /\ interrupt_fd_fd = EventFd
  /\ tick_count = 0
  /\ tick_base = IntMax
  /\ MainInit

NextWide ==
  \/ MainCreate(MaxWideCoroutines, {"Worker"}, {TRUE})
  \/ MainStart
  \/ MainRun
  \/ Tick(FALSE, MaxWideTick)
  \/ CoYield
  \/ CoWait
  \/ CoExit
  \/ CoSpawn(MaxWideCoroutines, {"Worker"})

SpecWide == InitWide /\ [][NextWide]_vars

(* The failure specification: construction of the machine and of           *)
(* coroutines when malloc or the creation of a descriptor may fail.  It     *)
(* stops before Run: to resume a coroutine whose stack is NULL is           *)
(* undefined.                                                               *)

InitFail ==
  /\ \E fd \in {NoFd, EventFd} : MachineInit(fd)
  /\ MainInit
  /\ co = <<>>
  /\ tick_base = 0

NextFail ==
  \/ MainConstruct(MaxFailCoroutines, {"CoroutineInit", "NewCoroutine"},
                   {NULL, StackMem}, {NoFd, EventFd})
  \/ MainStart

SpecFail == InitFail /\ [][NextFail]_vars

(* The constructor specification: coroutines made by each constructor, run   *)
(* to their end.                                                            *)

NextConstructors ==
  \/ MainConstruct(MaxConstructed, Constructors, {StackMem}, {EventFd})
  \/ MainStart
  \/ MainRun
  \/ Tick(FALSE, MaxConstructedTick)
  \/ CoYield
  \/ CoExit

SpecConstructors == Init /\ [][NextConstructors]_vars

(* The event specification: event descriptors under any sequence of         *)
(* TriggerEvent and ClearEvent (the Linux build: eventfd(0, EFD_NONBLOCK)). *)

\* NewEventFd: the counter of a new eventfd.
NewEventFd == 0

\* A faulty Clear, which reads as an EFD_SEMAPHORE descriptor does: one
\* trigger is taken off the counter.
ClearEventOne(count) ==
  IF count = 0 THEN 0 ELSE count - 1

\* TriggerEvent: write(fd, 1) adds one to the counter.
TriggerEvent(count) ==
  count + 1

\* ClearEvent: read(fd) returns the counter and resets it; on a counter of
\* zero the read fails with EAGAIN and changes nothing.
ClearEvent(count) ==
  IF count = 0 THEN count ELSE 0

\* poll reports POLLIN for an eventfd whose counter is not zero.
Readable(count) ==
  count > 0

EvNew ==
  /\ Len(events) < MaxEvents
  /\ events' = Append(events, NewEventFd)
  /\ UNCHANGED <<co, machine, ctl, out, pipes, reads, timer, fixed, hist>>

EvTrigger ==
  /\ \E k \in DOMAIN events :
       /\ events[k] < MaxEventCount
       /\ events' = [events EXCEPT ![k] = TriggerEvent(@)]
  /\ UNCHANGED <<co, machine, ctl, out, pipes, reads, timer, fixed, hist>>

EvClear ==
  /\ \E k \in DOMAIN events : events' = [events EXCEPT ![k] = ClearEvent(@)]
  /\ UNCHANGED <<co, machine, ctl, out, pipes, reads, timer, fixed, hist>>

NextEvent ==
  \/ EvNew
  \/ EvTrigger
  \/ EvClear

SpecEvent == Init /\ [][NextEvent]_vars

(* The destruction specification: main creates coroutines in its own       *)
(* storage and on the heap, runs the machine, in which a task may call Stop, *)
(* and destructs the machine, as the main of every program of src/ does.    *)

\* ListDestruct: free(e) for every element of the list, which is the struct
\* of the coroutine (the element is at offset 0).
RECURSIVE ListDestruct(_, _)
ListDestruct(cs, list) ==
  IF list = <<>> THEN cs
  ELSE ListDestruct([cs EXCEPT ![Head(list)] = NoCo], Tail(list))

\* CoroutineMachineDestruct, called by main before Run or after it returned:
\* ListDestruct, BitSetDestruct, CloseEventFd of the interrupt descriptor.
\* free of a struct that malloc did not return is undefined: the allocator
\* ends the process when it detects the pointer, or takes the block as freed.
MainDestruct ==
  /\ ctl \in {"main", "done"}
  /\ \/ /\ \E a \in Live : co[a].mem = "owned"
        /\ ctl' = "aborted"
        /\ UNCHANGED <<co, coroutines, coroutine_ids, interrupt_fd>>
     \/ /\ ctl' = "destructed"
        /\ co' = ListDestruct(co, coroutines)
        /\ coroutines' = <<>>
        /\ coroutine_ids' = BitSetInit
        /\ interrupt_fd' = FALSE
  /\ UNCHANGED <<next_coroutine_id, current, running, tick_count, env, hist>>

NextDestruct ==
  \/ MainCreate(MaxDestructCoroutines, {"Worker"}, {TRUE, FALSE})
  \/ MainStart
  \/ MainRun
  \/ Tick(FALSE, MaxDestructTick)
  \/ CoYield
  \/ CoExit
  \/ CoStop
  \/ MainDestruct

SpecDestruct == Init /\ [][NextDestruct]_vars

(* The general specification with the progress the claims about Stop        *)
(* assume: a poll with a ready descriptor returns, and the running task     *)
(* reaches its next suspension or its end.                                  *)

TaskStep ==
  CoYield \/ CoWait \/ CoYieldValue({1}) \/ CoCall \/ CoExit

SpecLive ==
  Init /\ [][Next]_vars /\ WF_vars(Tick(FALSE, MaxTick)) /\ WF_vars(TaskStep)

----------------------------------------------------------------------------
(* Claims *)

\* C1: in every reachable state at most one coroutine of the live set is in
\* state Running.
AtMostOneRunning ==
  Cardinality({a \in Live : co[a].state = "Running"}) <= 1

\* C1 witness: a coroutine runs while another one is suspended.
AtMostOneRunningWitness ==
  /\ ctl = "co"
  /\ co[current].state = "Running"
  /\ \E b \in Live : co[b].state \in {"Yielded", "Waiting"}

\* C2: the consumer Co1 receives exactly the values 1..NumValues of the
\* Generator, in order and once each, and the Call after the last value
\* returns with the generator not alive.
GeneratorRendezvous ==
  /\ \E k \in 0..NumValues : out = [j \in 1..k |-> j]
  /\ \A a \in Addrs :
       (co[a].functor = "Co1" /\ co[a].state = "Running" /\ co[a].pc = 2
          /\ co[co[a].generator].state = "Dead")
       => (~CoroutineIsAlive(co[a].generator) /\ Len(out) = NumValues)

\* C3: a coroutine suspended in Call is resumed only after its callee has
\* yielded a value into its result slot or has terminated.
CallResumesAfterAnswer ==
  [][\A c \in Addrs :
       (co[c].callee # NULL /\ co[c].state = "Yielded" /\ co'[c].state = "Running")
       => c \in served]_vars

\* C4: CoroutineIsAlive is true of a coroutine from its creation until its
\* task returns, and false afterwards.
AliveUntilReturn ==
  \A a \in Addrs :
    co[a].mem # "none" => (CoroutineIsAlive(a) <=> co[a].state # "Dead")

\* C5: when n coroutines are ready at every tick, every n consecutive ticks
\* choose each of them exactly once.
FairWindow ==
  LET n == Len(coroutines) IN
  ctl # "main" =>
    \A k \in 1..(Len(picks) - n + 1) :
      {picks[j] : j \in k..(k + n - 1)} = Live

\* C5 witness: three coroutines have been chosen over two full rounds.
FairWindowWitness ==
  Len(coroutines) = 3 /\ Len(picks) >= 6

\* C6, in the form a finite run decides: a coroutine that is ready and stays
\* ready is resumed before the ticks it has waited exceed the number of
\* coroutines that can be live.
ReadyIsResumedInTime ==
  \A a \in Live :
    (co[a].state = "Yielded" /\ co[a].event_fd /\ co[a].last_tick >= 1)
    => tick_count - co[a].last_tick <= MaxSpawnCoroutines

\* C7: when Run returns without Stop, no coroutine that was started is left
\* without having been resumed.
StartedIsResumed ==
  (ctl = "done" /\ running) => \A a \in Addrs : co[a].state # "Ready"

\* C7 witness: Run has returned by itself after two started coroutines ran.
StartedIsResumedWitness ==
  ctl = "done" /\ running /\ tick_count >= 2 /\ Len(co) >= 2

\* C8: once Stop was called during Run, no coroutine is resumed any more and
\* Run returns.
StopEndsRun ==
  /\ [][(~running /\ ctl = "poll") => ctl' # "co"]_vars
  /\ (~running /\ ctl \in {"poll", "co"}) ~> (ctl = "done")

\* C8 witness: Run has returned after a Stop, with coroutines still live.
StopEndsRunWitness ==
  ctl = "done" /\ ~running /\ Len(coroutines) # 0 /\ tick_count >= 1

\* C9: without Stop, Run has returned exactly when the live set is empty.
RunReturnsWhenEmpty ==
  running => ((ctl = "done") <=> (Len(coroutines) = 0))

\* C9 witness: the last coroutine has returned and Run with it.
RunReturnsWhenEmptyWitness ==
  ctl = "done" /\ running /\ tick_count >= 1 /\ Len(coroutines) = 0

\* C10: the identifiers in the bitset are those of the live coroutines.
IdsAreLiveIds ==
  BitSetMembers(coroutine_ids) = {co[a].id : a \in Live}

\* C11: the identifier a creation is given is the lowest one that is not in
\* the id-bitset at that moment, and so never one that is in use.
AllocatesLowestFreeId ==
  [][Len(coroutines') > Len(coroutines) =>
       LET id == co'[coroutines'[Len(coroutines')]].id IN
       /\ ~BitSetContains(coroutine_ids, id)
       /\ \A i \in 0..(id - 1) : BitSetContains(coroutine_ids, i)]_vars

\* C12: a Waiting coroutine is resumed only by a tick in which its wait
\* descriptor is ready, a Yielded one only by a tick in which its own event
\* descriptor is readable; a New coroutine is never resumed.
WakesOnOwnDescriptor ==
  [][\A c \in Addrs :
       (co[c].state # "Running" /\ co'[c].state = "Running") =>
         CASE co[c].state = "Waiting" -> co[c].wait_fd = ReadyFd
           [] co[c].state = "Yielded" -> co[c].event_fd
           [] OTHER -> co[c].state = "Ready"]_vars

\* C12 witness: a coroutine runs at the third tick or later while another
\* one waits on the descriptor that is never ready.
WakesOnOwnDescriptorWitness ==
  /\ ctl = "co" /\ tick_count >= 3
  /\ \E b \in Live : co[b].state = "Waiting" /\ co[b].wait_fd = IdleFd

\* C13, in the form a single state decides: the run loop never blocks in
\* poll with no descriptor ready while a coroutine is still suspended in a
\* Call that its callee has answered (by YieldValue into its slot or by
\* terminating); from such a state the caller is not resumed any more.
CalledIsResumed ==
  ~ ( /\ ctl = "poll" /\ running /\ ~interrupt_fd
      /\ \A a \in Live : ~PollReady(TriggerReady(co)[a])
      /\ \E c \in Live : /\ c \in served
                         /\ co[c].callee # NULL
                         /\ co[c].state = "Yielded" )

\* C14: a coroutine suspended in Yield has its own event descriptor readable
\* for as long as it is suspended, so every poll reports it runnable with no
\* other coroutine signalling it.
YieldSignalsItself ==
  \A c \in Live :
    (co[c].state = "Yielded" /\ co[c].resume = "Yield") => co[c].event_fd

\* C14 witness: a coroutine runs while another one is suspended in Yield.
YieldSignalsItselfWitness ==
  /\ ctl = "co" /\ tick_count >= 2
  /\ \E c \in Live : co[c].state = "Yielded" /\ co[c].resume = "Yield"

\* C15: a coroutine enters its YieldValue suspension with its event
\* descriptor clear, the descriptor is signalled only by a Call on it, and
\* it is resumed only with the descriptor signalled.
YieldValueWaitsForCall ==
  [][\A c \in Addrs :
       /\ (co[c].state = "Running" /\ co'[c].state = "Yielded"
             /\ co'[c].resume = "YieldValue") => ~co'[c].event_fd
       /\ (co[c].state = "Yielded" /\ co[c].resume = "YieldValue"
             /\ ~co[c].event_fd /\ co'[c].event_fd)
            => (ctl = "co" /\ co'[current].resume = "Call"
                  /\ co'[current].callee = c)
       /\ (co[c].state = "Yielded" /\ co[c].resume = "YieldValue"
             /\ co'[c].state = "Running") => co[c].event_fd]_vars

\* C15 witness: two ticks or more have passed over a coroutine suspended in
\* YieldValue, its event descriptor still clear.
YieldValueWaitsForCallWitness ==
  \E c \in Live :
    /\ co[c].state = "Yielded" /\ co[c].resume = "YieldValue"
    /\ ~co[c].event_fd
    /\ tick_count >= co[c].last_tick + 2

\* C16: a YieldValue executed with no caller and no result slot registered
\* changes no other coroutine (nothing is copied, nobody is signalled), and
\* a result slot is written only by the YieldValue of a coroutine that has
\* this slot registered at that moment (or reset by its owner's next Call).
DroppedYieldValue ==
  [][/\ (/\ ctl = "co" /\ co[current].state = "Running"
         /\ co'[current].state = "Yielded" /\ co'[current].resume = "YieldValue"
         /\ co[current].caller = NULL /\ co[current].result = NULL)
        => \A c \in Addrs \ {current} : co'[c] = co[c]
     /\ \A c \in Addrs :
          (co[c].mem # "none" /\ co'[c].mem # "none" /\ co'[c].value # co[c].value)
          => \/ (c = current /\ co'[c].resume = "Call" /\ co'[c].value = 0)
             \/ (co'[current].resume = "YieldValue" /\ co[current].result = c)]_vars

\* C16 witness: the coroutine that ran first yielded a value at tick 1, when
\* no Call can have been made, and a later Call on it finds its slot empty.
DroppedYieldValueWitness ==
  \E a, g \in Live :
    /\ co[g].state = "Yielded" /\ co[g].resume = "YieldValue" /\ co[g].last_tick = 1
    /\ co[a].state = "Yielded" /\ co[a].resume = "Call" /\ co[a].callee = g
    /\ co[a].value = 0

\* C17: the step in which the running coroutine returns or Exits leaves it
\* Dead, out of the live list and with its identifier out of the bitset; a
\* Dead coroutine is never in the live list, and its state never changes
\* again (memory that was freed may be given to a newly created coroutine).
TerminationIsFinal ==
  /\ [][\A a \in Addrs :
          (a \in Live /\ co[a].state = "Running"
             /\ co'[a].state \notin {"Running", "Yielded", "Waiting"})
          => /\ co'[a].state = "Dead"
             /\ a \notin {coroutines'[k] : k \in DOMAIN coroutines'}
             /\ ~BitSetContains(coroutine_ids', co[a].id)]_vars
  /\ [](\A a \in Addrs : co[a].state = "Dead" => a \notin Live)
  /\ [][\A a \in Addrs :
          co[a].state = "Dead" =>
            \/ co'[a].state = "Dead"
            \/ (co[a].mem = "none" /\ co'[a].state \in {"New", "Ready"})]_vars

\* C17 witness: a coroutine runs at a later tick, after another has terminated.
TerminationIsFinalWitness ==
  /\ ctl = "co" /\ tick_count >= 2
  /\ \E a \in Addrs : co[a].state = "Dead"

\* C18: a coroutine's state changes only New to Ready, Ready to Running,
\* Running to Yielded (in Yield, YieldValue or Call), Running to Waiting (in
\* Wait), Yielded or Waiting to Running, and Running to Dead; nothing leaves
\* Dead.
LifecycleTransitions ==
  [][\A a \in Addrs :
       (co[a].mem # "none" /\ co'[a].state # co[a].state) =>
         /\ <<co[a].state, co'[a].state>> \in
              {<<"New", "Ready">>, <<"Ready", "Running">>,
               <<"Running", "Yielded">>, <<"Running", "Waiting">>,
               <<"Yielded", "Running">>, <<"Waiting", "Running">>,
               <<"Running", "Dead">>}
         /\ co'[a].state = "Yielded" =>
              co'[a].resume \in {"Yield", "YieldValue", "Call"}
         /\ co'[a].state = "Waiting" => co'[a].resume = "Wait"]_vars

\* C18 witness: a coroutine is running again after a suspension and another
\* has terminated.
LifecycleTransitionsWitness ==
  /\ ctl = "co" /\ co[current].state = "Running"
  /\ co[current].last_tick >= 1
  /\ \E a \in Addrs : co[a].state = "Dead"

\* C19: Start makes a New coroutine Ready and changes nothing else; on a
\* coroutine in any other state it changes nothing; a second Start changes
\* nothing.
StartIsIdempotent ==
  \A a \in Addrs :
    co[a].mem # "none" =>
      LET c == co[a]
          s == CoroutineStart(c) IN
      /\ c.state = "New" => s = [c EXCEPT !.state = "Ready"]
      /\ c.state # "New" => s = c
      /\ CoroutineStart(s) = s

\* C19 witness: a task runs while another coroutine waits, and may apply
\* Start to itself (Running) and to the other (Waiting).
StartIsIdempotentWitness ==
  /\ ctl = "co" /\ co[current].state = "Running"
  /\ co[current].functor = "Worker"
  /\ \E a \in Live : co[a].state = "Waiting"

\* C20: a Stop that ends the run clears the running flag and triggers the
\* interrupt descriptor, and changes no coroutine (state, resume point,
\* descriptors, caller linkage), nor the live list, nor the id set.
StopChangesOnlyTheFlag ==
  [][(running /\ ~running') =>
       /\ interrupt_fd' = TRUE
       /\ co' = co
       /\ coroutines' = coroutines
       /\ coroutine_ids' = coroutine_ids
       /\ next_coroutine_id' = next_coroutine_id
       /\ current' = current
       /\ tick_count' = tick_count]_vars

\* C20 witness: a task has called Stop while another coroutine is suspended,
\* which is still suspended and still in the live list.
StopChangesOnlyTheFlagWitness ==
  /\ ctl = "co" /\ ~running /\ interrupt_fd
  /\ \E a \in Live : co[a].state \in {"Yielded", "Waiting"}

\* C21: an event descriptor is readable after a Trigger and stays readable
\* until a Clear; one Clear makes it not readable, however many Triggers came
\* before; Clear of a descriptor that is not readable leaves it not readable.
EventContract ==
  /\ [](\A k \in DOMAIN events :
          LET count == events[k] IN
          /\ Readable(TriggerEvent(count))
          /\ ~Readable(ClearEvent(count))
          /\ ClearEvent(TriggerEvent(TriggerEvent(count))) =
               ClearEvent(TriggerEvent(count)))
  /\ [][\A k \in DOMAIN events :
          /\ events'[k] = TriggerEvent(events[k]) => Readable(events'[k])
          /\ (Readable(events[k]) /\ events'[k] # ClearEvent(events[k]))
               => Readable(events'[k])
          /\ (Readable(events[k]) /\ ~Readable(events'[k]))
               => events'[k] = ClearEvent(events[k])]_vars

\* C21 witness: a descriptor triggered several times next to one that is not
\* readable.
EventContractWitness ==
  \E j, k \in DOMAIN events : events[j] >= 2 /\ ~Readable(events[k])

\* C22: a poll that fails or is interrupted selects no coroutine, changes no
\* coroutine's state, leaves tick_count as it is and does not end the run
\* loop: the loop goes on to build the same poll set and poll again.
FailedPollIsTransient ==
  [][PollFails =>
       /\ current' = NULL
       /\ \A a \in Addrs : co'[a].state = co[a].state
       /\ tick_count' = tick_count
       /\ coroutines' = coroutines
       /\ running' = running
       /\ running => (ctl' = "poll" /\ Blocked' = Blocked)]_vars

\* C22 witness: the loop is back at the poll after a failed one, before any
\* tick, with the event of a Ready coroutine triggered by the failed call.
FailedPollIsTransientWitness ==
  /\ ctl = "poll" /\ running /\ tick_count = 0 /\ current = NULL
  /\ \E a \in Live : co[a].state = "Ready" /\ co[a].event_fd

\* C23: a coroutine whose stack could not be allocated or whose event
\* descriptor could not be created is not in the live list and owns no
\* identifier, and no coroutine is built on a machine whose interrupt
\* descriptor could not be created.
FailedConstructionLeavesNothing ==
  /\ coroutines # <<>> => interrupt_fd_fd # NoFd
  /\ \A a \in Addrs :
       (co[a].mem # "none" /\ (co[a].stack = NULL \/ co[a].event_fd_fd = NoFd))
         => /\ a \notin Live
            /\ ~BitSetContains(coroutine_ids, co[a].id)

\* C24: when a coroutine terminates its struct is freed if and only if a
\* NewCoroutine* constructor allocated it.
FreedIffHeapAllocated ==
  [][\A a \in Addrs :
       (co[a].state = "Running" /\ a \notin Live') =>
         (co'[a].mem = "none" <=> co[a].mem = "heap")]_vars

\* C25: in main.c the Reader drains the pipe between every two writes of the
\* Writer, whatever the scheduler chooses among equals: each read returns one
\* message, in the order written, the end of the file is read once after the
\* Writer has closed its end, and the Reader and the Writer terminate (the
\* loop never blocks with nothing to wake it, and Run returns).
PipeInOrder ==
  /\ Len(pipes.data) <= 1
  /\ Len(reads) <= NumMessages + 1
  /\ \A k \in DOMAIN reads :
       reads[k] = IF k <= NumMessages THEN <<k - 1>> ELSE <<>>
  /\ \A a \in Addrs :
       (ctl = "co" /\ a = current /\ co[a].functor = "Reader" /\ co[a].pc = 1)
         => (pipes.data # <<>> \/ pipes.closed)
  /\ ctl = "poll" =>
       \/ \E a \in Live : PollReady(TriggerReady(co)[a])
       \/ \E a \in Live : co[a].state = "Waiting" /\ co[a].wait_fd = TimerFd
  /\ tick_count < MaxPipeTick
  /\ ctl = "done" =>
       /\ Len(reads) = NumMessages + 1
       /\ pipes.closed
       /\ \A a \in Addrs : co[a].state = "Dead"

\* C25 witness: Run has returned with every message and the end of the file
\* read.
PipeInOrderWitness ==
  /\ ctl = "done"
  /\ Len(reads) = NumMessages + 1
  /\ Len(out) = NumValues

\* C26: in every tick that selects a coroutine, no coroutine whose descriptor
\* reported in that tick is staler than the chosen one.  Staleness is
\* tick_count minus last_tick, so the stalest has the least last_tick.
ChosenIsStalest ==
  [][(ctl = "poll" /\ ctl' = "co") =>
       \A d \in Runnables : co[current'].last_tick <= co[d].last_tick]_vars

\* C27: among the coroutines that reported in a tick and are equally stale,
\* the one that comes first in the live list is chosen.
TiesByInsertionOrder ==
  [][(ctl = "poll" /\ ctl' = "co") =>
       LET pos(a) == CHOOSE k \in DOMAIN coroutines : coroutines[k] = a IN
       \A d \in Runnables :
         co[d].last_tick = co[current'].last_tick => pos(current') <= pos(d)]_vars

\* C28: two live coroutines that have both suspended have different
\* last_tick values: a suspension records the current tick, and at most one
\* coroutine suspends in a tick.
DistinctLastTicks ==
  /\ \A a, b \in Live :
       (a # b /\ co[a].resume # "none" /\ co[b].resume # "none")
         => co[a].last_tick # co[b].last_tick
  /\ \A a, b \in Live :
       (a # b /\ co[a].last_tick = co[b].last_tick)
         => co[a].last_tick = 0 - tick_base
  /\ \A a \in Live :
       co[a].resume # "none" =>
         (co[a].last_tick >= 1 /\ co[a].last_tick <= tick_count)

\* C28 witness: two suspended coroutines, and a third that has run and is
\* running again.
DistinctLastTicksWitness ==
  /\ ctl = "co" /\ co[current].last_tick >= 1
  /\ \E a, b \in Live :
       /\ a # b
       /\ co[a].resume # "none" /\ co[b].resume # "none"

\* C29: a coroutine created and started at tick T is not chosen for its first
\* resumption while a coroutine that yielded before T, and has been ready
\* since, is ready too.
NewbornWaitsItsTurn ==
  [][(ctl = "poll" /\ ctl' = "co" /\ co[current'].state = "Ready") =>
       \A d \in Runnables :
         ~(/\ co[d].state = "Yielded" /\ co[d].resume = "Yield"
           /\ co[d].last_tick >= 1
           /\ co[d].last_tick < co[current'].born)]_vars

\* C30: the poll set of a tick has the interrupt descriptor at index 0 and,
\* for each live coroutine that is Ready, Yielded or Waiting, one entry at an
\* index i >= 1 with the coroutine at blocked[i-1]: its event descriptor if it
\* is Ready or Yielded, its wait descriptor if it is Waiting; a New, Running
\* or Dead coroutine has no entry.  (Sequences count from 1: index i of the
\* code is position i + 1.)
PollSetShape ==
  ctl = "poll" =>
    /\ PollFds[1] = <<"interrupt", interrupt_fd_fd>>
    /\ Len(PollFds) = Len(Blocked) + 1
    /\ \A k \in DOMAIN Blocked : Blocked[k] \in Live
    /\ \A a \in Live :
         LET entries == {k \in DOMAIN Blocked : Blocked[k] = a} IN
         IF co[a].state \in {"Ready", "Yielded", "Waiting"}
           THEN /\ Cardinality(entries) = 1
                /\ \A k \in entries :
                     PollFds[k + 1] =
                       IF co[a].state = "Waiting"
                         THEN <<"wait", co[a].wait_fd>>
                         ELSE <<"event", a>>
           ELSE entries = {}

\* C30 witness: a poll set is built while one live coroutine is New and
\* another waits on a descriptor.
PollSetShapeWitness ==
  /\ ctl = "poll"
  /\ \E a, b \in Live : co[a].state = "New" /\ co[b].state = "Waiting"
  /\ Len(PollFds) = 2

\* C31: a tick whose poll returns with the interrupt descriptor readable
\* clears it, so that no later poll finds it readable without a new Stop.
InterruptIsCleared ==
  [][(ctl = "poll" /\ interrupt_fd /\ tick_count' = tick_count + 1)
       => ~interrupt_fd']_vars

\* C32: the coroutine a tick resumes is in the live list and was Ready,
\* Yielded or Waiting when it was chosen; no step makes a New, Running or Dead
\* coroutine run.
ResumesOnlyBlocked ==
  [][/\ (ctl = "poll" /\ ctl' = "co") =>
          /\ current' \in Live
          /\ co[current'].state \in {"Ready", "Yielded", "Waiting"}
     /\ \A a \in Addrs :
          (co[a].mem # "none" /\ co[a].state # "Running"
             /\ a \in DOMAIN co' /\ co'[a].state = "Running") =>
            /\ a \in Live
            /\ co[a].state \in {"Ready", "Yielded", "Waiting"}
            /\ ctl = "poll" /\ current' = a]_vars

\* C32 witness: a coroutine has been resumed at the second tick or later
\* while a New coroutine is in the live list.
ResumesOnlyBlockedWitness ==
  /\ ctl = "co" /\ tick_count >= 2
  /\ co[current].state = "Running"
  /\ \E b \in Live : co[b].state = "New"

\* C33: a coroutine that runs has its event descriptor clear (the tick
\* cleared it, whatever was triggered while the coroutine was suspended), and
\* it enters a suspension other than Yield with the descriptor still clear,
\* so only a trigger sent after that suspension can wake it.
EventClearedBeforeResume ==
  /\ [](ctl = "co" => ~co[current].event_fd)
  /\ [][\A c \in Addrs :
          (co[c].state = "Running" /\ c \in DOMAIN co'
             /\ co'[c].state \in {"Yielded", "Waiting"} /\ co'[c].resume # "Yield")
          => ~co'[c].event_fd]_vars

\* C33 witness: a coroutine runs that was Called while it was suspended (the
\* Call triggered its event), its caller still suspended in that Call.
EventClearedBeforeResumeWitness ==
  /\ ctl = "co" /\ co[current].state = "Running"
  /\ co[current].last_tick >= 1
  /\ \E b \in Live :
       /\ co[b].resume = "Call" /\ co[b].callee = current
       /\ co[b].last_tick > co[current].last_tick

\* C34: the caller of a live coroutine g is NULL or a coroutine suspended in
\* a Call on g, and the step in which a Call returns leaves the caller and the
\* result slot of its callee NULL.
CallerLinkage ==
  /\ [](\A g \in Live :
          co[g].caller # NULL =>
            LET x == co[g].caller IN
            /\ x \in Live
            /\ co[x].state = "Yielded" /\ co[x].resume = "Call"
            /\ co[x].callee = g)
  /\ [][\A x \in Addrs :
          (co[x].state = "Yielded" /\ co[x].resume = "Call"
             /\ co'[x].state = "Running"
             /\ co[x].callee \in {coroutines'[k] : k \in DOMAIN coroutines'})
          => /\ co'[co[x].callee].caller = NULL
             /\ co'[co[x].callee].result = NULL]_vars

\* C34 witness: a Call has returned with a value, and its callee, suspended
\* in YieldValue, has no caller and no result slot.
CallerLinkageWitness ==
  /\ ctl = "co" /\ co[current].state = "Running" /\ co[current].value = 1
  /\ \E g \in Live :
       /\ co[g].resume = "YieldValue"
       /\ co[g].caller = NULL /\ co[g].result = NULL

\* C35: the coroutines an operation touches have not been released: the
\* callee whose caller and result a returning Call clears, the caller that a
\* terminating coroutine wakes, and the callee that a Call registers with and
\* triggers are all structs that were neither destructed nor freed.
NoUseAfterRelease ==
  [][LET Released(cs, a) == cs[a].mem = "none" \/ cs[a].state = "Dead" IN
     \A x \in Addrs :
       /\ (co[x].state = "Yielded" /\ co[x].resume = "Call"
             /\ co'[x].state = "Running")
            => ~Released(co, co[x].callee)
       /\ (co[x].state = "Running" /\ co[x].mem # "none" /\ co[x].caller # NULL
             /\ x \in Live /\ x \notin {coroutines'[k] : k \in DOMAIN coroutines'})
            => ~Released(co, co[x].caller)
       /\ (co[x].state = "Running" /\ co'[x].state = "Yielded"
             /\ co'[x].resume = "Call")
            => ~Released(co, co'[x].callee)]_vars

\* C36: two coroutines that are in the live list at the same time have
\* different identifiers.
UniqueLiveIds ==
  \A j, k \in DOMAIN coroutines :
    j # k => co[coroutines[j]].id # co[coroutines[k]].id

\* C37: the destruction of the machine frees no struct that lives in
\* caller-owned storage: every such struct is as it was when
\* CoroutineMachineDestruct returns, and the call does return.
DestructFreesOnlyOwn ==
  [][(ctl \in {"main", "done"} /\ ctl' \in {"destructed", "aborted"}) =>
       /\ ctl' = "destructed"
       /\ \A a \in Addrs : co[a].mem = "owned" => co'[a] = co[a]]_vars

\* C38: CompareTick puts the staler of two coroutines first, whatever their
\* tick values: its result is negative exactly when the first has the lesser
\* last_tick (the greater staleness), and zero exactly when they are equal.
CompareTickKeepsOrder ==
  \A a, b \in Live :
    LET r == CompareTick(co, tick_count, a, b) IN
    /\ r < 0 <=> co[a].last_tick < co[b].last_tick
    /\ r = 0 <=> co[a].last_tick = co[b].last_tick

\* C39: the wait descriptor of a coroutine that is not Waiting is -1, and so
\* is the one CoroutineDestruct closes when the scheduler destructs a
\* coroutine that has terminated.
WaitFdCleared ==
  /\ [](\A a \in Addrs :
          (co[a].mem # "none" /\ co[a].state # "Waiting") => co[a].wait_fd = NoFd)
  /\ [][\A a \in Addrs :
          (a \in Live /\ a \notin {coroutines'[k] : k \in DOMAIN coroutines'})
          => co[a].wait_fd = NoFd]_vars

\* C39 witness: the Reader, which has waited on the pipe for every message,
\* has read the end of the file and is about to return.
WaitFdClearedWitness ==
  /\ ctl = "co" /\ co[current].functor = "Reader" /\ co[current].pc = 2
  /\ Len(reads) = NumMessages + 1
  /\ co[current].wait_fd = NoFd

====
